---- MODULE Spec2Model ----
(***************************************************************************)
(* A model of the binary mesh codec of Classification3DFiles:              *)
(*   data/datatypes.py     the type registry and the string codec          *)
(*   data/file_formats.py  Attribute, Block, FormatSpec, the encoder       *)
(*                         (create_binary_from_obj) and the decoder        *)
(*                         (binary_to_txt)                                 *)
(* Byte streams are sequences of numbers 0..255.  A struct format string   *)
(* is a record [prefix, codes]: the byte-order character and the sequence  *)
(* of format characters.  An attribute name is the sequence of its         *)
(* "_"-separated parts, which is what name.split("_") yields.              *)
(***************************************************************************)
EXTENDS Integers, Sequences, FiniteSets, TLC

VARIABLES
    pc,          \* which operation has run
    formatspec,  \* codec: the FormatSpec the encoder and the decoder walk
    objfile,     \* codec: the lines of the .obj file
    binfile,     \* codec: the bytes of the binary file
    enc,         \* codec: what create_binary_from_obj did
    dec,         \* codec: what binary_to_txt did
    strcall,     \* string codec: the arguments of pack_string / unpack_string
    strfile,     \* string codec: the stream unpack_string reads
    strout,      \* string codec: what pack_string / unpack_string returned
    ctorcall,    \* schema classes: the arguments the constructors are called with
    ctorout,     \* schema classes: what the last constructor call did
    heap,        \* list objects: the contents of each list, by address
    instances    \* list objects: the Block and FormatSpec objects built so far

vars == <<pc, formatspec, objfile, binfile, enc, dec, strcall, strfile, strout,
          ctorcall, ctorout, heap, instances>>

codecVars == <<formatspec, objfile, binfile, enc, dec>>
stringVars == <<strcall, strfile, strout>>
schemaVars == <<ctorcall, ctorout>>
heapVars == <<heap, instances>>

None == [k |-> "none", v |-> 0]

--------------------------------------------------------------------------
(* Sequence helpers *)

RECURSIVE Repeat(_, _)
\* Python's  s * n : n copies of s, nothing for n <= 0.
Repeat(s, n) ==
    IF n <= 0 THEN <<>>
    ELSE LET half == Repeat(s, n \div 2)
         IN  half \o half \o (IF n % 2 = 1 THEN s ELSE <<>>)

Reverse(s) == [j \in 1..Len(s) |-> s[Len(s) + 1 - j]]

RECURSIVE Flatten(_)
\* The concatenation of the sequences of ss
Flatten(ss) ==
    IF ss = <<>> THEN <<>>
    ELSE IF Len(ss) = 1 THEN ss[1]
    ELSE Flatten(SubSeq(ss, 1, Len(ss) \div 2)) \o Flatten(SubSeq(ss, Len(ss) \div 2 + 1, Len(ss)))

Min(a, b) == IF a < b THEN a ELSE b

\* file.read(n) at offset pos (bytes already consumed): a short read at the end
\* of the stream, the whole rest for a negative n.
Read(stream, pos, n) ==
    IF n < 0 THEN SubSeq(stream, pos + 1, Len(stream))
    ELSE SubSeq(stream, pos + 1, Min(pos + n, Len(stream)))

--------------------------------------------------------------------------
(* data/datatypes.py : the type registry *)

STRUCT_FORMAT_MAP ==
    [int8 |-> <<"b">>, int16 |-> <<"h">>, int32 |-> <<"i">>, int64 |-> <<"q">>,
     uint8 |-> <<"B">>, uint16 |-> <<"H">>, uint32 |-> <<"I">>, uint64 |-> <<"Q">>,
     float |-> <<"f">>, double |-> <<"d">>, char |-> <<"c">>,
     string |-> <<"B", "s">>, bool |-> <<"?">>]

is_valid_type(data_type) == data_type \in DOMAIN STRUCT_FORMAT_MAP

get_struct_format(data_type) == STRUCT_FORMAT_MAP[data_type]

--------------------------------------------------------------------------
(* Python's struct module, standard sizes (a "<" or ">" prefix; no prefix  *)
(* is the native order, little-endian on the hosts considered; a single    *)
(* item needs no padding).                                                 *)

SignedCodes == {"b", "h", "i", "q"}
UnsignedCodes == {"B", "H", "I", "Q"}
IntCodes == SignedCodes \cup UnsignedCodes

CodeSize(c) ==
    CASE c \in {"b", "B", "c", "?", "s"} -> 1
      [] c \in {"h", "H"} -> 2
      [] c \in {"i", "I", "f"} -> 4
      [] c \in {"q", "Q", "d"} -> 8

RECURSIVE SumSizes(_)
SumSizes(codes) == IF codes = <<>> THEN 0 ELSE CodeSize(Head(codes)) + SumSizes(Tail(codes))

calcsize(fmt) == SumSizes(fmt.codes)

LittleEndian(fmt) == fmt.prefix # ">"

\* Values that struct packs and unpacks.  Model integers stay below 2^31.
IntV(i) == [k |-> "int", v |-> i]
FloatV(i) == [k |-> "float", v |-> i]        \* the float i.0, 0 <= i < 2^21
Tenth64 == [k |-> "tenth", v |-> 64]         \* the double nearest 0.1
Tenth32 == [k |-> "tenth", v |-> 32]         \* the float32 nearest 0.1
BoolV(b) == [k |-> "bool", v |-> IF b THEN 1 ELSE 0]
CharV(byte) == [k |-> "bytes", v |-> byte]   \* a bytes object of length 1
HugeV == [k |-> "huge", v |-> 0]             \* an integer of magnitude 2^31 or more
RawFloatV(bytes) == [k |-> "rawfloat", v |-> bytes]  \* any other bit pattern

Pow256(j) == CASE j = 0 -> 1 [] j = 1 -> 256 [] j = 2 -> 65536 [] j = 3 -> 16777216

\* Byte j (0 = least significant) of the two's complement form of v.
ByteOf(v, j) == IF j >= 4 THEN (IF v < 0 THEN 255 ELSE 0) ELSE (v \div Pow256(j)) % 256

\* Big-endian bytes of integer v in w bytes.
IntBytes(v, w) == [j \in 1..w |-> ByteOf(v, w - j)]

InRange(c, v) ==
    CASE c = "b" -> -128 <= v /\ v <= 127
      [] c = "B" -> 0 <= v /\ v <= 255
      [] c = "h" -> -32768 <= v /\ v <= 32767
      [] c = "H" -> 0 <= v /\ v <= 65535
      [] c \in {"I", "Q"} -> 0 <= v
      [] c \in {"i", "q"} -> TRUE

Log2(v) == CHOOSE e \in 0..20 : 2^e <= v /\ v < 2^(e + 1)

\* The bits of the float i.0 (i >= 1, e = Log2(i)) in a format with the given
\* exponent bias and mantissa width
FloatBits(i, e, bias, width) == (bias + e) * 2^width + (i - 2^e) * 2^(width - e)

\* IEEE 754 binary32 bits of the float i.0
F32Bits(i) == IF i = 0 THEN 0 ELSE FloatBits(i, Log2(i), 127, 23)

\* The high 32 bits of IEEE 754 binary64 of the float i.0 (the low 32 are zero)
F64High(i) == IF i = 0 THEN 0 ELSE FloatBits(i, Log2(i), 1023, 20)

Tenth32AsF32 == <<61, 204, 204, 205>>                    \* 0x3DCCCCCD
Tenth64AsF64 == <<63, 185, 153, 153, 153, 153, 153, 154>> \* 0x3FB999999999999A
Tenth32AsF64 == <<63, 185, 153, 153, 160, 0, 0, 0>>       \* 0x3FB99999A0000000

IsNumber(x) == x.k \in {"int", "float", "bool", "tenth"}

Failed == [ok |-> FALSE, bytes |-> <<>>]

\* Two writes in a row: the second happens only if the first did not raise.
Then(first, second) ==
    [ok |-> first.ok /\ second.ok,
     bytes |-> IF first.ok THEN first.bytes \o second.bytes ELSE first.bytes]

\* A result that is whole or nothing
AllOrNothing(r) == IF r.ok THEN r ELSE Failed

\* Big-endian bytes of one packed item, or failure (struct.error).
PackItem(c, x) ==
    CASE c \in IntCodes ->
            IF x.k \in {"int", "bool"} /\ InRange(c, x.v)
            THEN [ok |-> TRUE, bytes |-> IntBytes(x.v, CodeSize(c))]
            ELSE [ok |-> FALSE, bytes |-> <<>>]
      [] c = "f" ->
            IF x.k = "tenth" THEN [ok |-> TRUE, bytes |-> Tenth32AsF32]
            ELSE IF IsNumber(x) /\ x.v >= 0 THEN [ok |-> TRUE, bytes |-> IntBytes(F32Bits(x.v), 4)]
            ELSE [ok |-> FALSE, bytes |-> <<>>]
      [] c = "d" ->
            IF x.k = "tenth"
            THEN [ok |-> TRUE, bytes |-> IF x.v = 64 THEN Tenth64AsF64 ELSE Tenth32AsF64]
            ELSE IF IsNumber(x) /\ x.v >= 0
            THEN [ok |-> TRUE, bytes |-> IntBytes(F64High(x.v), 4) \o <<0, 0, 0, 0>>]
            ELSE [ok |-> FALSE, bytes |-> <<>>]
      [] c = "?" ->
            [ok |-> TRUE, bytes |-> IF IsNumber(x) /\ x.v = 0 THEN <<0>> ELSE <<1>>]
      [] c \in {"c", "s"} ->
            IF x.k = "bytes" THEN [ok |-> TRUE, bytes |-> <<x.v>>]
            ELSE [ok |-> FALSE, bytes |-> <<>>]

\* The bytes of an item in the byte order asked for
Ordered(r, little) == [ok |-> r.ok, bytes |-> IF little THEN Reverse(r.bytes) ELSE r.bytes]

RECURSIVE PackItems(_, _, _)
PackItems(codes, args, little) ==
    IF codes = <<>> THEN [ok |-> TRUE, bytes |-> <<>>]
    ELSE Then(Ordered(PackItem(Head(codes), Head(args)), little),
              PackItems(Tail(codes), Tail(args), little))

\* struct.pack(fmt, *args): fails unless there is one argument per item and
\* every item can be packed.
struct_pack(fmt, args) ==
    IF Len(fmt.codes) # Len(args) THEN Failed
    ELSE AllOrNothing(PackItems(fmt.codes, args, LittleEndian(fmt)))

\* The integer held by big-endian bytes b, HugeV if it needs more than 31 bits.
Horner(b) == LET n == Len(b) IN
    b[n] + (IF n >= 2 THEN 256 * b[n - 1] ELSE 0) + (IF n >= 3 THEN 65536 * b[n - 2] ELSE 0)
         + (IF n >= 4 THEN 16777216 * b[n - 3] ELSE 0)

Fits31(b) == \A j \in 1..Len(b) : (j <= Len(b) - 4 => b[j] = 0) /\ (j = Len(b) - 3 => b[j] < 128)

Complement(b) == [j \in 1..Len(b) |-> 255 - b[j]]

Magnitude(b, negative) ==
    IF ~Fits31(b) THEN HugeV ELSE IntV(IF negative THEN -Horner(b) - 1 ELSE Horner(b))

UnpackInt(c, b) ==
    IF c \in UnsignedCodes \/ b[1] < 128 THEN Magnitude(b, FALSE)
    ELSE Magnitude(Complement(b), TRUE)

\* The float with exponent field ex and mantissa m in a format with the given
\* bias and mantissa width: i.0 when it is a whole number below 2^21
FloatOf(b, e, m, width) ==
    IF 0 <= e /\ e <= 20 /\ m % 2^(width - e) = 0 THEN FloatV(2^e + (m \div 2^(width - e)))
    ELSE RawFloatV(b)

FloatOfBits(b, bits, bias, width) ==
    IF bits = 0 THEN FloatV(0)
    ELSE FloatOf(b, (bits \div 2^width) - bias, bits % 2^width, width)

UnpackF32(b) ==
    IF b = Tenth32AsF32 THEN Tenth32
    ELSE IF b[1] >= 128 THEN RawFloatV(b)
    ELSE FloatOfBits(b, Horner(b), 127, 23)

UnpackF64(b) ==
    IF b = Tenth64AsF64 THEN Tenth64
    ELSE IF b = Tenth32AsF64 THEN Tenth32
    ELSE IF b[1] >= 128 \/ SubSeq(b, 5, 8) # <<0, 0, 0, 0>> THEN RawFloatV(b)
    ELSE FloatOfBits(b, Horner(SubSeq(b, 1, 4)), 1023, 20)

\* One unpacked item from its big-endian bytes.
UnpackItem(c, b) ==
    CASE c \in IntCodes -> UnpackInt(c, b)
      [] c = "f" -> UnpackF32(b)
      [] c = "d" -> UnpackF64(b)
      [] c = "?" -> BoolV(b[1] # 0)
      [] c \in {"c", "s"} -> CharV(b[1])

\* The bytes of an item as read, put big-endian
BigEndian(b, little) == IF little THEN Reverse(b) ELSE b

RECURSIVE UnpackItems(_, _, _)
UnpackItems(codes, buf, little) ==
    IF codes = <<>> THEN <<>>
    ELSE <<UnpackItem(Head(codes), BigEndian(SubSeq(buf, 1, CodeSize(Head(codes))), little))>>
             \o UnpackItems(Tail(codes), SubSeq(buf, CodeSize(Head(codes)) + 1, Len(buf)), little)

\* struct.unpack(fmt, buf): fails unless buf has exactly calcsize(fmt) bytes.
struct_unpack(fmt, buf) ==
    IF Len(buf) # calcsize(fmt) THEN [ok |-> FALSE, vals |-> <<>>]
    ELSE [ok |-> TRUE, vals |-> UnpackItems(fmt.codes, buf, LittleEndian(fmt))]

--------------------------------------------------------------------------
(* Text: a string is the sequence of its code points *)

IsSurrogate(cp) == 55296 <= cp /\ cp <= 57343

\* UTF-8 bytes of one code point
Utf8Bytes(cp) ==
    CASE cp < 128 -> <<cp>>
      [] cp >= 128 /\ cp < 2048 -> <<192 + (cp \div 64), 128 + (cp % 64)>>
      [] cp >= 2048 /\ cp < 65536 -> <<224 + (cp \div 4096), 128 + ((cp \div 64) % 64), 128 + (cp % 64)>>
      [] cp >= 65536 -> <<240 + (cp \div 262144), 128 + ((cp \div 4096) % 64),
                          128 + ((cp \div 64) % 64), 128 + (cp % 64)>>

\* str.encode(encoding): UnicodeEncodeError for what the encoding cannot hold
str_encode(data, encoding) ==
    IF encoding = "utf-8"
    THEN IF \E j \in 1..Len(data) : IsSurrogate(data[j]) THEN [ok |-> FALSE, bytes |-> <<>>]
         ELSE [ok |-> TRUE, bytes |-> Flatten([j \in 1..Len(data) |-> Utf8Bytes(data[j])])]
    ELSE \* latin-1
         IF \E j \in 1..Len(data) : data[j] > 255 THEN [ok |-> FALSE, bytes |-> <<>>]
         ELSE [ok |-> TRUE, bytes |-> data]

Utf8SeqLen(b1) ==
    CASE b1 < 128 -> 1
      [] b1 >= 194 /\ b1 < 224 -> 2
      [] b1 >= 224 /\ b1 < 240 -> 3
      [] b1 >= 240 /\ b1 < 245 -> 4
      [] OTHER -> 0

Utf8CodePoint(b, n) ==
    CASE n = 1 -> b[1]
      [] n = 2 -> (b[1] - 192) * 64 + (b[2] - 128)
      [] n = 3 -> (b[1] - 224) * 4096 + (b[2] - 128) * 64 + (b[3] - 128)
      [] n = 4 -> (b[1] - 240) * 262144 + (b[2] - 128) * 4096 + (b[3] - 128) * 64 + (b[4] - 128)

\* Whether the n bytes at the head of b are a lead byte and its continuation bytes
WellFormedHead(b, n) ==
    n # 0 /\ Len(b) >= n /\ (\A j \in 2..n : 128 <= b[j] /\ b[j] <= 191)

\* Whether cp is a code point that a sequence of n bytes may hold
ValidCodePoint(cp, n) ==
    ~(n = 3 /\ (cp < 2048 \/ IsSurrogate(cp))) /\ ~(n = 4 /\ (cp < 65536 \/ cp > 1114111))

DecodeFailed == [ok |-> FALSE, text |-> <<>>]

\* The text of two decoded parts, if both decoded
JoinText(left, right) ==
    IF left.ok /\ right.ok THEN [ok |-> TRUE, text |-> left.text \o right.text]
    ELSE DecodeFailed

RECURSIVE Utf8DecodeUnits(_)
RECURSIVE Utf8DecodeUnit(_, _)
\* The code points of b, given the length n of its first sequence
Utf8DecodeUnit(b, n) ==
    IF ~WellFormedHead(b, n) THEN DecodeFailed
    ELSE IF ~ValidCodePoint(Utf8CodePoint(b, n), n) THEN DecodeFailed
    ELSE JoinText([ok |-> TRUE, text |-> <<Utf8CodePoint(b, n)>>],
                  Utf8DecodeUnits(SubSeq(b, n + 1, Len(b))))

\* The code points of b, one well-formed sequence after the other
Utf8DecodeUnits(b) ==
    IF b = <<>> THEN [ok |-> TRUE, text |-> <<>>] ELSE Utf8DecodeUnit(b, Utf8SeqLen(b[1]))

IsContinuation(byte) == 128 <= byte /\ byte <= 191

\* The least of a set of numbers
Least(S) == CHOOSE j \in S : \A i \in S : j <= i

RECURSIVE Utf8Decode(_)
RECURSIVE Utf8DecodeCut(_, _)
\* The code points of a long b, cut before one of the bytes at cuts
Utf8DecodeCut(b, cuts) ==
    IF cuts = {} THEN DecodeFailed
    ELSE JoinText(Utf8Decode(SubSeq(b, 1, Least(cuts) - 1)),
                  Utf8Decode(SubSeq(b, Least(cuts), Len(b))))

\* The code points of b.  A long b is cut before a byte in its second half
\* that starts a sequence, and the two parts are decoded on their own; a
\* second half of continuation bytes only is malformed.
Utf8Decode(b) ==
    IF Len(b) <= 8 THEN Utf8DecodeUnits(b)
    ELSE Utf8DecodeCut(b, {j \in (Len(b) \div 2 + 1)..Len(b) : ~IsContinuation(b[j])})

\* bytes.decode(encoding): UnicodeDecodeError for malformed input
bytes_decode(b, encoding) ==
    IF encoding = "utf-8" THEN Utf8Decode(b) ELSE [ok |-> TRUE, text |-> b]

--------------------------------------------------------------------------
(* data/datatypes.py : the string codec *)

\* The prefix and the encoded bytes, if the text could be encoded
PrefixAndText(encoded, length_format) ==
    IF ~encoded.ok THEN Failed
    ELSE AllOrNothing(Then(struct_pack(length_format, <<IntV(Len(encoded.bytes))>>), encoded))

\* A faulty pack_string whose prefix counts the characters of the string
\* instead of the encoded bytes
PackStringCountingChars(data, length_format, encoding) ==
    IF ~str_encode(data, encoding).ok THEN Failed
    ELSE AllOrNothing(Then(struct_pack(length_format, <<IntV(Len(data))>>),
                           str_encode(data, encoding)))

\* pack_string: the prefix counts the encoded bytes.  A raised exception is ok = FALSE.
pack_string(data, length_format, encoding) ==
    PrefixAndText(str_encode(data, encoding), length_format)

\* data.read(string_length).decode(encoding), the stream being at pos1
ReadText(body, pos1, text) == [ok |-> text.ok, text |-> text.text, pos |-> pos1 + Len(body)]

StringBody(data, pos1, string_length) ==
    Read(data, pos1, IF string_length.k = "huge" THEN Len(data) ELSE string_length.v)

\* The rest of unpack_string once the prefix is unpacked (got), the stream being at pos1
UnpackBody(data, pos1, got, encoding) ==
    IF ~got.ok \/ got.vals = <<>> THEN [ok |-> FALSE, text |-> <<>>, pos |-> pos1]
    ELSE IF got.vals[1].k \notin {"int", "bool", "huge"}
    THEN [ok |-> FALSE, text |-> <<>>, pos |-> pos1]   \* read() needs an integer
    ELSE ReadText(StringBody(data, pos1, got.vals[1]), pos1,
                  bytes_decode(StringBody(data, pos1, got.vals[1]), encoding))

UnpackHead(data, pos, head, length_format, encoding) ==
    UnpackBody(data, pos + Len(head), struct_unpack(length_format, head), encoding)

\* unpack_string on the stream data whose first pos bytes are consumed.
\* pos is the offset the stream is left at, also when an exception is raised.
unpack_string(data, pos, length_format, encoding) ==
    UnpackHead(data, pos, Read(data, pos, calcsize(length_format)), length_format, encoding)

--------------------------------------------------------------------------
(* data/file_formats.py : the schema classes.  A constructor yields        *)
(* [raised, self]: whether __init__ raised, and the fields of self as they *)
(* stood when it returned or raised.  A caller gets self only when         *)
(* raised = FALSE.                                                         *)

\* Attribute.__init__(name, data_type, size)
AttributeInit(name, data_type, size) ==
    IF ~is_valid_type(data_type)
    THEN [raised |-> TRUE, self |-> [name |-> <<>>, type |-> "", size |-> 0]]
    ELSE [raised |-> FALSE, self |-> [name |-> name, type |-> data_type, size |-> size]]

\* Attribute.get_format_string
get_format_string(att) == Repeat(get_struct_format(att.type), att.size)

\* Block.__init__(name, attributes, block_terminator); block_terminator is
\* <<>> for None and <<att>> for an attribute.
BlockInit(name, attributes, block_terminator) ==
    [name |-> name, attributes |-> attributes, block_terminator |-> block_terminator]

\* FormatSpec.__init__(name, blocks, endian, face_format)
FormatSpecInit(name, blocks, endian, face_format) ==
    LET self0 == [name |-> name, blocks |-> blocks, endian |-> "", face_format |-> ""]
    IN  IF endian \notin {"little", "big"}
        THEN [raised |-> TRUE, self |-> [self0 EXCEPT !.endian = "little"]]
        ELSE IF face_format \notin {"sequential", "seperate"}
        THEN [raised |-> TRUE,
              self |-> [self0 EXCEPT !.endian = endian, !.face_format = "sequential"]]
        ELSE [raised |-> FALSE,
              self |-> [self0 EXCEPT !.endian = endian, !.face_format = face_format]]

\* prefix + att.get_format_string()
AttFormat(spec, att) ==
    [prefix |-> IF spec.endian = "little" THEN "<" ELSE ">", codes |-> get_format_string(att)]

FaceNames == {<<"face">>, <<"face", "normal">>, <<"face", "texcoord">>}

--------------------------------------------------------------------------
(* create_binary_from_obj, part 1: reading the .obj file.  The file is      *)
(* given by its lines; a corner of an f line is [v, t, n].                  *)

\* One f line of the given corner syntax: what is appended to faces,
\* face_normals and face_texcoords.
ParseFace(kind, corners) ==
    LET vs == [j \in 1..Len(corners) |-> IntV(corners[j].v)]
        ts == [j \in 1..Len(corners) |-> IntV(corners[j].t)]
        ns == [j \in 1..Len(corners) |-> IntV(corners[j].n)]
        zeros == [j \in 1..Len(corners) |-> IntV(0)]
    IN  CASE kind = "v//n" -> [face |-> vs, normal |-> ns, texcoord |-> zeros]
          [] kind = "v/t/n" -> [face |-> vs, normal |-> ns, texcoord |-> ts]
          [] kind = "v/t" -> [face |-> vs, normal |-> zeros, texcoord |-> ts]
          [] kind = "v" -> [face |-> vs, normal |-> zeros, texcoord |-> zeros]

\* The lists after the whole file is read.
ParseObj(obj) ==
    [vertex_positions |-> obj.v,
     vertex_normals |-> obj.vn,
     texture_coords |-> obj.vt,
     faces |-> [j \in 1..Len(obj.f) |-> ParseFace(obj.f[j].kind, obj.f[j].corners).face],
     face_normals |-> [j \in 1..Len(obj.f) |-> ParseFace(obj.f[j].kind, obj.f[j].corners).normal],
     face_texcoords |-> [j \in 1..Len(obj.f) |-> ParseFace(obj.f[j].kind, obj.f[j].corners).texcoord]]

--------------------------------------------------------------------------
(* create_binary_from_obj, part 2: writing the binary file.  The walk       *)
(* carries st = [out, faces, face_normals, face_texcoords, ok, log]: the    *)
(* bytes written, the three face lists (emptied as the code empties them),  *)
(* whether no exception was raised, and for each attribute and terminator   *)
(* written the offset reached after it.  An exception ends the walk and     *)
(* leaves the bytes written before it.                                      *)

Done == [ok |-> TRUE, bytes |-> <<>>]

\* for x in items: f.write(struct.pack(fmt, *x))
RECURSIVE PackEach(_, _)
PackEach(fmt, items) ==
    IF items = <<>> THEN Done
    ELSE Then(struct_pack(fmt, Head(items)), PackEach(fmt, Tail(items)))

FaceList(st, name) ==
    CASE name = <<"face">> -> st.faces
      [] name = <<"face", "normal">> -> st.face_normals
      [] name = <<"face", "texcoord">> -> st.face_texcoords

\* The inner loop  for att2 in block.attributes  of face i under the sequential
\* layout: the entry i of the two other face lists, for each attribute of the
\* block that names one, until two were written.
RECURSIVE EncodeCorners(_, _, _, _, _, _)
EncodeCorners(spec, st, anchor, i, atts, count) ==
    IF atts = <<>> \/ count = 2 THEN Done
    ELSE IF Head(atts).name \notin FaceNames \ {anchor}
    THEN EncodeCorners(spec, st, anchor, i, Tail(atts), count)
    ELSE IF i > Len(FaceList(st, Head(atts).name)) THEN Failed     \* IndexError
    ELSE Then(struct_pack(AttFormat(spec, Head(atts)), FaceList(st, Head(atts).name)[i]),
              EncodeCorners(spec, st, anchor, i, Tail(atts), count + 1))

\* for i, x in enumerate(<the list att names>), from entry i on
RECURSIVE EncodeFaceLoop(_, _, _, _, _)
EncodeFaceLoop(spec, st, block, att, i) ==
    IF i > Len(FaceList(st, att.name)) THEN Done
    ELSE Then(struct_pack(AttFormat(spec, att), FaceList(st, att.name)[i]),
              Then(IF spec.face_format = "sequential"
                   THEN EncodeCorners(spec, st, att.name, i, block.attributes, 0)
                   ELSE Done,
                   EncodeFaceLoop(spec, st, block, att, i + 1)))

\* The face lists after an attribute: after face, face_normal or face_texcoord
\* under the sequential layout the two other lists are emptied.
DrainAfter(spec, st, name) ==
    IF spec.face_format # "sequential" \/ name \notin FaceNames THEN st
    ELSE [st EXCEPT !.faces = IF name = <<"face">> THEN @ ELSE <<>>,
                    !.face_normals = IF name = <<"face", "normal">> THEN @ ELSE <<>>,
                    !.face_texcoords = IF name = <<"face", "texcoord">> THEN @ ELSE <<>>]

\* A faulty choice of the list a count attribute counts: the positions, for every stem
CountedPositions(stem, st, m) == m.vertex_positions

\* The list a <stem>_count attribute counts; None for a stem no branch handles
Counted(stem, st, m) ==
    CASE stem = "vertex" -> m.vertex_positions
      [] stem = "normal" -> m.vertex_normals
      [] stem = "texcoord" -> m.texture_coords
      [] stem = "face" -> st.faces
      [] OTHER -> None

\* What a <stem>_count attribute writes: the length of its list, or nothing
\* for a stem that no branch handles.
EncodeCount(spec, st, att, m) ==
    IF att.name[1] \notin {"vertex", "normal", "texcoord", "face"} THEN Done
    ELSE struct_pack(AttFormat(spec, att), <<IntV(Len(Counted(att.name[1], st, m)))>>)

IsCountName(name) == Len(name) = 2 /\ name[2] = "count"

Placeholder == <<116, 101, 115, 116>>     \* "test"

\* The array an attribute named position, vertex, normal or texcoord writes
ArrayOf(name, m) ==
    CASE name \in {<<"position">>, <<"vertex">>} -> m.vertex_positions
      [] name = <<"normal">> -> m.vertex_normals
      [] name = <<"texcoord">> -> m.texture_coords

\* A faulty set of array names, in which vertex is no synonym of position
ArrayNamesNoSynonym == {<<"position">>, <<"normal">>, <<"texcoord">>}

ArrayNames == {<<"position">>, <<"vertex">>, <<"normal">>, <<"texcoord">>}

\* The bytes one attribute writes (the if / elif chain on att.name).
EncodeBytes(spec, st, block, att, m) ==
    IF att.name \in ArrayNames THEN PackEach(AttFormat(spec, att), ArrayOf(att.name, m))
    ELSE IF att.name \in FaceNames THEN EncodeFaceLoop(spec, st, block, att, 1)
    ELSE IF IsCountName(att.name) THEN EncodeCount(spec, st, att, m)
    ELSE IF att.type = "string" THEN pack_string(Placeholder, AttFormat(spec, att), "utf-8")
    ELSE struct_pack(AttFormat(spec, att), <<IntV(0)>>)

\* The walk after the bytes w of place a of block b; st1 is what the face
\* lists are once the attribute ended without an exception.
Written(st, st1, w, b, a) ==
    IF ~w.ok THEN [st EXCEPT !.out = @ \o w.bytes, !.ok = FALSE]
    ELSE [st1 EXCEPT !.out = @ \o w.bytes,
                     !.log = Append(@, [b |-> b, a |-> a, end |-> Len(st.out) + Len(w.bytes)])]

\* One attribute of the walk (b, a: its block and its place in the block).
EncodeAttribute(spec, st, block, att, m, b, a) ==
    Written(st, DrainAfter(spec, st, att.name), EncodeBytes(spec, st, block, att, m), b, a)

RECURSIVE EncodeAttributes(_, _, _, _, _, _)
EncodeAttributes(spec, st, block, m, b, a) ==
    IF ~st.ok \/ a > Len(block.attributes) THEN st
    ELSE EncodeAttributes(spec, EncodeAttribute(spec, st, block, block.attributes[a], m, b, a),
                          block, m, b, a + 1)

\* The block terminator: struct.pack(prefix + terminator format, 0), logged
\* as place Len(attributes) + 1 of the block.
EncodeTerminator(spec, st, block, b) ==
    IF ~st.ok \/ block.block_terminator = <<>> THEN st
    ELSE Written(st, st, struct_pack(AttFormat(spec, block.block_terminator[1]), <<IntV(0)>>),
                 b, Len(block.attributes) + 1)

RECURSIVE EncodeBlocks(_, _, _, _)
EncodeBlocks(spec, st, m, b) ==
    IF ~st.ok \/ b > Len(spec.blocks) THEN st
    ELSE EncodeBlocks(spec,
            EncodeTerminator(spec, EncodeAttributes(spec, st, spec.blocks[b], m, b, 1),
                             spec.blocks[b], b),
            m, b + 1)

\* create_binary_from_obj(self, obj_file, output_file), given the parsed lists
create_binary_from_obj(spec, m) ==
    EncodeBlocks(spec,
                 [out |-> <<>>, faces |-> m.faces, face_normals |-> m.face_normals,
                  face_texcoords |-> m.face_texcoords, ok |-> TRUE, log |-> <<>>],
                 m, 1)

--------------------------------------------------------------------------
(* binary_to_txt.  The walk over the stream data carries                    *)
(* st = [pos, count_dict, done_sequentail, ok, log, dump]: the bytes        *)
(* consumed, the two per-block variables of the code, whether no exception  *)
(* was raised, the offset reached after each attribute and at each block    *)
(* end, and what was written to the text file: one entry                    *)
(* [b, a, name, kind, value] per value written, value a sequence of tuples. *)

EmptyDict == [x \in {} |-> None]

\* The tuple unpacked from the bytes buf read at pos: [ok, vals, pos]
Unpacked(pos, buf, got) == [ok |-> got.ok, vals |-> got.vals, pos |-> pos + Len(buf)]

UnpackRead(pos, buf, fmt) == Unpacked(pos, buf, struct_unpack(fmt, buf))

\* struct.unpack(fmt, f.read(struct.calcsize(fmt)))
ReadTuple(data, pos, fmt) == UnpackRead(pos, Read(data, pos, calcsize(fmt)), fmt)

\* r after the tuple t of the list called name is read
Gathered(r, name, t) ==
    IF ~t.ok THEN [r EXCEPT !.ok = FALSE, !.pos = t.pos]
    ELSE [r EXCEPT !.pos = t.pos,
                   !.face = IF name = <<"face">> THEN Append(@, t.vals) ELSE @,
                   !.face_normal = IF name = <<"face", "normal">> THEN Append(@, t.vals) ELSE @,
                   !.face_texcoord = IF name = <<"face", "texcoord">> THEN Append(@, t.vals) ELSE @]

\* The inner loop  for att2 in block.attributes  of one entry read under the
\* sequential layout: one tuple for each attribute of the block that names
\* one of the two other face lists.
\* r = [ok, pos, own, face, face_normal, face_texcoord].
RECURSIVE DecodeCorners(_, _, _, _, _)
DecodeCorners(spec, data, r, anchor, atts) ==
    IF atts = <<>> \/ ~r.ok THEN r
    ELSE IF Head(atts).name \notin FaceNames \ {anchor}
    THEN DecodeCorners(spec, data, r, anchor, Tail(atts))
    ELSE DecodeCorners(spec, data,
                       Gathered(r, Head(atts).name,
                                ReadTuple(data, r.pos, AttFormat(spec, Head(atts)))),
                       anchor, Tail(atts))

\* r after the tuple t of the attribute itself is read
Own(r, t) ==
    IF ~t.ok THEN [r EXCEPT !.ok = FALSE, !.pos = t.pos]
    ELSE [r EXCEPT !.pos = t.pos, !.own = Append(@, t.vals)]

\* One iteration of  for i in range(count), r1 being r after the attribute's own tuple
DecodeEntry(spec, data, r1, block, att) ==
    IF r1.ok /\ att.name \in FaceNames /\ spec.face_format = "sequential"
    THEN DecodeCorners(spec, data, r1, att.name, block.attributes)
    ELSE r1

\* for i in range(count), with n iterations left.
RECURSIVE DecodeLoop(_, _, _, _, _, _)
DecodeLoop(spec, data, r, block, att, n) ==
    IF n <= 0 \/ ~r.ok THEN r
    ELSE DecodeLoop(spec, data,
                    DecodeEntry(spec, data,
                                Own(r, ReadTuple(data, r.pos, AttFormat(spec, att))),
                                block, att),
                    block, att, n - 1)

\* The number of iterations of range(count), -1 when range raises TypeError.
\* A count of 2^31 or more outruns any stream: one more than its length stands for it.
RangeOf(count, data) ==
    CASE count.k \in {"int", "bool"} -> IF count.v < 0 THEN 0 ELSE count.v
      [] count.k = "huge" -> Len(data) + 1
      [] OTHER -> -1

Names(block) == {block.attributes[j].name : j \in 1..Len(block.attributes)}

\* The entry written for another face list once the first loop of the block
\* is over (sequential layout), if the block has an attribute of that name.
SequentialEntry(name, val, block, att, b, a) ==
    IF name \in Names(block) /\ att.name # name
    THEN <<[b |-> b, a |-> a, name |-> name, kind |-> "sequential", value |-> val]>>
    ELSE <<>>

SequentialEntries(r, block, att, b, a) ==
    SequentialEntry(<<"face">>, r.face, block, att, b, a)
        \o SequentialEntry(<<"face", "normal">>, r.face_normal, block, att, b, a)
        \o SequentialEntry(<<"face", "texcoord">>, r.face_texcoord, block, att, b, a)

\* The walk after the loop of a dynamic attribute ended as r; first: the
\* layout is sequential and done_sequentail is not yet set.
Looped(st, r, first, block, att, b, a) ==
    IF ~r.ok THEN [st EXCEPT !.ok = FALSE, !.pos = r.pos]
    ELSE [st EXCEPT
            !.pos = r.pos,
            !.dump = @ \o <<[b |-> b, a |-> a, name |-> att.name, kind |-> "array",
                             value |-> r.own]>>
                       \o (IF first THEN SequentialEntries(r, block, att, b, a) ELSE <<>>),
            !.done_sequentail = @ \/ first]

\* The dynamic branch with n = range(count_dict[key])
DecodeRange(spec, data, st, block, att, n, b, a) ==
    IF n < 0 THEN [st EXCEPT !.ok = FALSE]
    ELSE Looped(st,
                DecodeLoop(spec, data,
                           [ok |-> TRUE, pos |-> st.pos, own |-> <<>>, face |-> <<>>,
                            face_normal |-> <<>>, face_texcoord |-> <<>>],
                           block, att, n),
                spec.face_format = "sequential" /\ ~st.done_sequentail,
                block, att, b, a)

\* The dynamic branch: count_dict[key] tuples of the attribute.
DecodeDynamic(spec, data, st, block, att, key, b, a) ==
    DecodeRange(spec, data, st, block, att, RangeOf(st.count_dict[key], data), b, a)

\* count_dict after the count under the given stem is read
Recorded(count_dict, stem, count) ==
    ((IF stem = "position" THEN <<"vertex">> ELSE <<stem>>) :> count)
        @@ (IF stem = "face"
            THEN (<<"face", "normal">> :> count) @@ (<<"face", "texcoord">> :> count)
            ELSE EmptyDict)
        @@ count_dict

\* The walk after a tuple t is read and written out as an entry of the given kind
Dumped(st, t, kind, value, att, b, a) ==
    IF ~t.ok \/ t.vals = <<>> THEN [st EXCEPT !.ok = FALSE, !.pos = t.pos]
    ELSE [st EXCEPT
            !.pos = t.pos,
            !.dump = Append(@, [b |-> b, a |-> a, name |-> att.name, kind |-> kind,
                                value |-> value]),
            !.count_dict = IF kind = "count" THEN Recorded(@, att.name[1], t.vals[1]) ELSE @]

CountRead(st, t, att, b, a) == Dumped(st, t, "count", <<SubSeq(t.vals, 1, 1)>>, att, b, a)

\* The count branch: one tuple read, its first item recorded under the stem.
DecodeCount(spec, data, st, att, b, a) ==
    CountRead(st, ReadTuple(data, st.pos, AttFormat(spec, att)), att, b, a)

\* The walk after unpack_string returned or raised u
StringRead(st, u, att, b, a) ==
    IF ~u.ok THEN [st EXCEPT !.ok = FALSE, !.pos = u.pos]
    ELSE [st EXCEPT
            !.pos = u.pos,
            !.dump = Append(@, [b |-> b, a |-> a, name |-> att.name, kind |-> "string",
                                value |-> <<<<[k |-> "str", v |-> u.text]>>>>])]

\* The string branch.
DecodeString(spec, data, st, att, b, a) ==
    StringRead(st, unpack_string(data, st.pos, AttFormat(spec, att), "utf-8"), att, b, a)

ScalarRead(st, t, att, b, a) == Dumped(st, t, "scalar", <<t.vals>>, att, b, a)

\* The last branch: one scalar or tuple of the declared type.
DecodeScalar(spec, data, st, att, b, a) ==
    ScalarRead(st, ReadTuple(data, st.pos, AttFormat(spec, att)), att, b, a)

\* The key the attribute is looked up under in count_dict.
DecodeKey(att) == IF att.name = <<"position">> THEN <<"vertex">> ELSE att.name

\* Whether the attribute takes the dynamic branch.
IsDynamic(st, att) ==
    DecodeKey(att) \in DOMAIN st.count_dict
        /\ (~st.done_sequentail \/ att.name \notin FaceNames)

\* The if / elif chain of one attribute
DecodeBranch(spec, data, st, block, att, b, a) ==
    IF IsDynamic(st, att)
    THEN DecodeDynamic(spec, data, st, block, att, DecodeKey(att), b, a)
    ELSE IF IsCountName(att.name) THEN DecodeCount(spec, data, st, att, b, a)
    ELSE IF att.type = "string" THEN DecodeString(spec, data, st, att, b, a)
    ELSE IF att.name \notin FaceNames THEN DecodeScalar(spec, data, st, att, b, a)
    ELSE st

\* The offset reached at place a of block b, noted unless an exception was raised
Logged(st, b, a) ==
    IF ~st.ok THEN st
    ELSE [st EXCEPT !.log = Append(@, [b |-> b, a |-> a, end |-> st.pos,
                                       done |-> st.done_sequentail])]

\* One attribute of the walk.
DecodeAttribute(spec, data, st, block, att, b, a) ==
    Logged(DecodeBranch(spec, data, st, block, att, b, a), b, a)

RECURSIVE DecodeAttributes(_, _, _, _, _, _)
DecodeAttributes(spec, data, st, block, b, a) ==
    IF ~st.ok \/ a > Len(block.attributes) THEN st
    ELSE DecodeAttributes(spec, data,
                          DecodeAttribute(spec, data, st, block, block.attributes[a], b, a),
                          block, b, a + 1)

\* One block: the two per-block variables start afresh; when the block's
\* attributes are done the next block starts.  The offset at the block's end
\* is logged as place Len(attributes) + 1.
DecodeBlock(spec, data, st, block, b) ==
    Logged(DecodeAttributes(spec, data,
                            [st EXCEPT !.done_sequentail = FALSE, !.count_dict = EmptyDict],
                            block, b, 1),
           b, Len(block.attributes) + 1)

RECURSIVE DecodeBlocks(_, _, _, _)
DecodeBlocks(spec, data, st, b) ==
    IF ~st.ok \/ b > Len(spec.blocks) THEN st
    ELSE DecodeBlocks(spec, data, DecodeBlock(spec, data, st, spec.blocks[b], b), b + 1)

\* binary_to_txt(self, binary_file, output_file), given the file's bytes
binary_to_txt(spec, data) ==
    DecodeBlocks(spec, data,
                 [pos |-> 0, count_dict |-> EmptyDict, done_sequentail |-> FALSE,
                  ok |-> TRUE, log |-> <<>>, dump |-> <<>>],
                 1)

--------------------------------------------------------------------------
(* Inputs of the codec: .obj files and format specifications *)

MaxVerts == 4      \* v lines of the .obj file
MaxAux == 1        \* vn lines; there are twice as many vt lines
MaxFaces == 2      \* f lines
MaxCard == 2       \* size of an attribute with an unrecognized name, or of a terminator

\* The k-th v line.  The first three are the triangle of tests/testfiles;
\* the fourth has a coordinate that no binary float holds exactly.
VertexLine(k) ==
    CASE k = 1 -> <<FloatV(0), FloatV(0), FloatV(0)>>
      [] k = 2 -> <<FloatV(1), FloatV(0), FloatV(0)>>
      [] k = 3 -> <<FloatV(0), FloatV(1), FloatV(0)>>
      [] k = 4 -> <<Tenth64, FloatV(0), FloatV(1)>>
      [] OTHER -> <<FloatV(k), FloatV(1), FloatV(1)>>

\* The j-th f line: a triangle, in the corner syntax the file uses there.
FaceLine(j, aux) ==
    [kind |-> IF aux = 0 THEN "v"
              ELSE CASE j % 3 = 1 -> "v/t/n" [] j % 3 = 2 -> "v//n" [] j % 3 = 0 -> "v/t",
     corners |-> [c \in 1..3 |-> [v |-> j + c - 1, t |-> j + c + 2, n |-> j + 6]]]

ObjFile(nv, aux, nf) ==
    [v |-> [k \in 1..nv |-> VertexLine(k)],
     vn |-> [k \in 1..aux |-> <<FloatV(0), FloatV(0), FloatV(1)>>],
     vt |-> [k \in 1..(2 * aux) |-> <<FloatV(k - 1), FloatV(1)>>],
     f |-> [j \in 1..nf |-> FaceLine(j, aux)]]

ObjFiles == {ObjFile(nv, aux, nf) : nv \in 0..MaxVerts, aux \in 0..MaxAux, nf \in 0..MaxFaces}

Att(name, data_type, size) == AttributeInit(name, data_type, size).self

CountAtt(stem, data_type) == Att(<<stem, "count">>, data_type, 1)
PositionAtt == Att(<<"position">>, "float", 3)
VertexAtt == Att(<<"vertex">>, "float", 3)
NormalAtt == Att(<<"normal">>, "float", 3)
TexcoordAtt == Att(<<"texcoord">>, "float", 2)
FaceAtt(data_type) == Att(<<"face">>, data_type, 3)
FaceNormalAtt(data_type) == Att(<<"face", "normal">>, data_type, 3)
FaceTexcoordAtt(data_type) == Att(<<"face", "texcoord">>, data_type, 3)

Blk(attributes) == BlockInit("block", attributes, <<>>)

\* tests/test_data.py, test1 and test2
Test1Blocks ==
    <<BlockInit("vertex_data", <<CountAtt("vertex", "uint32"), PositionAtt>>, <<>>),
      BlockInit("face_data", <<CountAtt("face", "uint32"), FaceAtt("uint32")>>, <<>>)>>

Test2Blocks ==
    <<BlockInit("vertex_data",
                <<CountAtt("vertex", "uint16"), PositionAtt, CountAtt("normal", "uint16"),
                  NormalAtt, CountAtt("texcoord", "uint16"), TexcoordAtt>>, <<>>),
      BlockInit("face_data",
                <<CountAtt("face", "uint16"), FaceAtt("uint16"), FaceTexcoordAtt("uint16"),
                  FaceNormalAtt("uint16")>>, <<>>)>>

\* Every order of one, two or three of the face attributes
FaceOrders ==
    LET atts == {FaceAtt("uint32"), FaceNormalAtt("uint32"), FaceTexcoordAtt("uint32")}
    IN  {s \in UNION {[1..n -> atts] : n \in 1..3} :
            \A i, j \in 1..Len(s) : i # j => s[i] # s[j]}

\* One block of face attributes, with or without face_count before and after
FaceSchemas ==
    {<<Blk(pre \o s \o post)>> :
        pre \in {<<>>, <<CountAtt("face", "uint32")>>}, s \in FaceOrders,
        post \in {<<>>, <<CountAtt("face", "uint32")>>}}

\* Vertex data and face data, in one block and in two
MixedSchemas ==
    {<<Blk(<<CountAtt("vertex", "uint32"), p, CountAtt("face", "uint32")>> \o s)>> :
        p \in {PositionAtt, VertexAtt}, s \in FaceOrders}
    \cup {<<Blk(<<CountAtt("vertex", "uint32"), p>>), Blk(<<CountAtt("face", "uint32")>> \o s)>> :
        p \in {PositionAtt, VertexAtt}, s \in FaceOrders}

\* Counts and the arrays they govern, present, absent, aliased and out of place
VertexSchemas ==
    {<<Blk(<<CountAtt(stem, t), a>>)>> :
        stem \in {"vertex", "position", "normal", "texcoord", "material"},
        t \in {"uint8", "uint32"},
        a \in {PositionAtt, VertexAtt, NormalAtt, TexcoordAtt}}
    \cup {<<Blk(<<a>>)>> : a \in {PositionAtt, VertexAtt, NormalAtt, TexcoordAtt, FaceAtt("uint32")}}
    \cup {<<Blk(<<CountAtt("vertex", "uint32")>>), Blk(<<PositionAtt>>)>>,
          <<Blk(<<PositionAtt, CountAtt("vertex", "uint32")>>)>>,
          <<Blk(<<PositionAtt>>), Blk(<<CountAtt("vertex", "uint32"), CountAtt("normal", "uint32"),
                                       CountAtt("texcoord", "uint32"), CountAtt("face", "uint32")>>)>>}

RegisteredTypes == DOMAIN STRUCT_FORMAT_MAP

\* Attributes whose name no branch recognizes, of every type
UnknownNames == {<<"id">>, <<"material", "id">>, <<"face", "normal", "count">>}

UnknownSchemas ==
    {<<Blk(<<Att(name, t, n)>>)>> : name \in UnknownNames, t \in RegisteredTypes, n \in 1..MaxCard}
    \cup {<<Blk(<<CountAtt("vertex", "uint32"), Att(<<"id">>, t, 1), PositionAtt>>)>> :
            t \in RegisteredTypes}

Terminators == {Att(<<"end">>, t, n) : t \in {"uint8", "uint32", "float", "char"}, n \in 1..MaxCard}

\* test1 with block terminators
TerminatorSchemas ==
    {<<BlockInit("vertex_data", Test1Blocks[1].attributes, <<t>>), Test1Blocks[2]>> :
        t \in Terminators}
    \cup {<<BlockInit("vertex_data", Test1Blocks[1].attributes, <<t>>),
            BlockInit("face_data", Test1Blocks[2].attributes, <<t>>)>> : t \in Terminators}

\* A face attribute named twice in a block
RepeatedSchemas ==
    {<<Blk(<<CountAtt("face", "uint32")>> \o s \o <<a>>)>> :
        s \in {o \in FaceOrders : Len(o) <= 2}, a \in {FaceAtt("uint32"), FaceNormalAtt("uint32")}}

Schemas ==
    {Test1Blocks, Test2Blocks} \cup FaceSchemas \cup MixedSchemas \cup VertexSchemas
        \cup UnknownSchemas \cup TerminatorSchemas \cup RepeatedSchemas

\* The FormatSpec objects a caller can hold
FormatSpecs ==
    {FormatSpecInit("example", blocks, endian, face_format).self :
        blocks \in Schemas, endian \in {"little", "big"},
        face_format \in {"sequential", "seperate"}}

\* The strings and length prefixes given to the string codec
MaxStrLen == 2

Alphabet == {97, 233, 8364}      \* "a", e with acute accent, the euro sign

LongStrings == {Repeat(<<97>>, 255), Repeat(<<97>>, 256), Repeat(<<233>>, 127), Repeat(<<233>>, 128)}

Strings == UNION {[1..n -> Alphabet] : n \in 0..MaxStrLen} \cup LongStrings

LengthFormats == {[prefix |-> p, codes |-> <<c>>] : p \in {"", "<", ">"}, c \in UnsignedCodes}

Tails == {<<>>, <<0>>, <<97, 98>>}

--------------------------------------------------------------------------
(* The codec as a state machine: a FormatSpec and an .obj file are given;   *)
(* create_binary_from_obj writes the binary file; if it returned,           *)
(* binary_to_txt reads the file back.                                       *)

NotRun == [ok |-> FALSE, pos |-> 0, log |-> <<>>, dump |-> <<>>]
NoCall == [data |-> <<>>, length_format |-> [prefix |-> "", codes |-> <<>>],
           encoding |-> "", tail |-> <<>>]
NoResult == [ok |-> FALSE, text |-> <<>>, pos |-> 0]
NoCtor == [raised |-> FALSE, self |-> None]

\* The list objects that exist once the classes are defined: a default
\* argument is evaluated once, when its def statement runs, so Block.__init__
\* and FormatSpec.__init__ each hold one list, at the addresses below.
BlockDefault == 1
FormatSpecDefault == 2
DefaultLists == <<<<>>, <<>>>>

Init ==
    /\ pc = "start"
    /\ formatspec \in FormatSpecs
    /\ objfile \in ObjFiles
    /\ binfile = <<>>
    /\ enc = NotRun
    /\ dec = NotRun
    /\ strcall = NoCall
    /\ strfile = <<>>
    /\ strout = NoResult
    /\ ctorcall = None
    /\ ctorout = NoCtor
    /\ heap = DefaultLists
    /\ instances = <<>>

CreateBinaryFromObj ==
    /\ pc = "start"
    /\ enc' = create_binary_from_obj(formatspec, ParseObj(objfile))
    /\ binfile' = enc'.out
    /\ pc' = IF enc'.ok THEN "encoded" ELSE "encode_failed"
    /\ UNCHANGED <<formatspec, objfile, dec, stringVars, schemaVars, heapVars>>

BinaryToTxt ==
    /\ pc = "encoded"
    /\ dec' = binary_to_txt(formatspec, binfile)
    /\ pc' = "decoded"
    /\ UNCHANGED <<formatspec, objfile, binfile, enc, stringVars, schemaVars, heapVars>>

Next == CreateBinaryFromObj \/ BinaryToTxt

Spec == Init /\ [][Next]_vars

--------------------------------------------------------------------------
(* The string codec as a state machine: pack_string packs a string, the     *)
(* stream holds the packed bytes followed by whatever comes next in the     *)
(* file, and unpack_string reads the string back from the stream.           *)

InitString ==
    /\ pc = "start"
    /\ strcall \in {[data |-> d, length_format |-> f, encoding |-> e, tail |-> t] :
                        d \in Strings, f \in LengthFormats, e \in {"utf-8", "latin-1"},
                        t \in Tails}
    /\ strfile = <<>>
    /\ strout = NoResult
    /\ formatspec = FormatSpecInit("example", <<>>, "little", "sequential").self
    /\ objfile = ObjFile(0, 0, 0)
    /\ binfile = <<>>
    /\ enc = NotRun
    /\ dec = NotRun
    /\ ctorcall = None
    /\ ctorout = NoCtor
    /\ heap = DefaultLists
    /\ instances = <<>>

PackString ==
    /\ pc = "start"
    /\ strout' = pack_string(strcall.data, strcall.length_format, strcall.encoding)
    /\ strfile' = IF strout'.ok THEN strout'.bytes \o strcall.tail ELSE <<>>
    /\ pc' = IF strout'.ok THEN "packed" ELSE "pack_failed"
    /\ UNCHANGED <<strcall, codecVars, schemaVars, heapVars>>

UnpackString ==
    /\ pc = "packed"
    /\ strout' = unpack_string(strfile, 0, strcall.length_format, strcall.encoding)
    /\ pc' = "unpacked"
    /\ UNCHANGED <<strcall, strfile, codecVars, schemaVars, heapVars>>

NextString == PackString \/ UnpackString

SpecString == InitString /\ [][NextString]_vars

--------------------------------------------------------------------------
(* The schema classes as a state machine: a caller builds an Attribute,     *)
(* puts it in a Block and the Block in a FormatSpec, as tests/test_data.py  *)
(* does.  A constructor that raises ends the run: the caller has no object. *)

UnregisteredTypes == {"uint128", "vec3"}

\* The arguments a caller may pass
CtorCalls ==
    [name : {<<"id">>},
     data_type : RegisteredTypes \cup UnregisteredTypes,
     size : (-1)..MaxCard,
     endian : {"little", "big", "middle"},
     face_format : {"sequential", "seperate", "separate", "interleaved"}]

InitSchema ==
    /\ pc = "start"
    /\ ctorcall \in CtorCalls
    /\ ctorout = NoCtor
    /\ heap = DefaultLists
    /\ instances = <<>>
    /\ formatspec = FormatSpecInit("example", <<>>, "little", "sequential").self
    /\ objfile = ObjFile(0, 0, 0)
    /\ binfile = <<>>
    /\ enc = NotRun
    /\ dec = NotRun
    /\ strcall = NoCall
    /\ strfile = <<>>
    /\ strout = NoResult

\* Attribute(name, data_type, size)
NewAttribute ==
    /\ pc = "start"
    /\ ctorout' = AttributeInit(ctorcall.name, ctorcall.data_type, ctorcall.size)
    /\ pc' = IF ctorout'.raised THEN "attribute_raised" ELSE "attribute"
    /\ UNCHANGED <<ctorcall, codecVars, stringVars, heapVars>>

\* Block("block", [attribute])
NewBlock ==
    /\ pc = "attribute"
    /\ ctorout' = [raised |-> FALSE, self |-> BlockInit("block", <<ctorout.self>>, <<>>)]
    /\ pc' = "block"
    /\ UNCHANGED <<ctorcall, codecVars, stringVars, heapVars>>

\* FormatSpec("example", [block], endian, face_format)
NewFormatSpec ==
    /\ pc = "block"
    /\ ctorout' = FormatSpecInit("example", <<ctorout.self>>, ctorcall.endian,
                                 ctorcall.face_format)
    /\ pc' = IF ctorout'.raised THEN "formatspec_raised" ELSE "formatspec"
    /\ UNCHANGED <<ctorcall, codecVars, stringVars, heapVars>>

NextSchema == NewAttribute \/ NewBlock \/ NewFormatSpec

SpecSchema == InitSchema /\ [][NextSchema]_vars

--------------------------------------------------------------------------
(* The lists of the schema objects as a state machine.  A caller builds     *)
(* Block and FormatSpec objects, with a new list of its own or without a    *)
(* list argument, and appends to their lists: FormatSpec.add_block, and     *)
(* block.attributes.append.  An object is [class, list, made]: list is the  *)
(* address of the list self.attributes or self.blocks refers to; made       *)
(* records what the object was built with and what was appended through     *)
(* it since.                                                                *)

MaxInstances == 3    \* objects built
MaxListLen == 2      \* entries of a list

\* What is appended: a block, or an attribute
Items == {"x"}

InitHeap ==
    /\ pc = "start"
    /\ heap = DefaultLists
    /\ instances = <<>>
    /\ formatspec = FormatSpecInit("example", <<>>, "little", "sequential").self
    /\ objfile = ObjFile(0, 0, 0)
    /\ binfile = <<>>
    /\ enc = NotRun
    /\ dec = NotRun
    /\ strcall = NoCall
    /\ strfile = <<>>
    /\ strout = NoResult
    /\ ctorcall = None
    /\ ctorout = NoCtor

\* The object a constructor yields: self.attributes / self.blocks is bound
\* to the list object the parameter refers to
Instance(class, list, made) == [class |-> class, list |-> list, made |-> made]

\* Block(name): attributes is the default list
NewBlockDefault ==
    /\ Len(instances) < MaxInstances
    /\ instances' = Append(instances, Instance("Block", BlockDefault, <<>>))
    /\ UNCHANGED <<pc, heap, codecVars, stringVars, schemaVars>>

\* Block(name, []): attributes is a new list of the caller
NewBlockWithList ==
    /\ Len(instances) < MaxInstances
    /\ heap' = Append(heap, <<>>)
    /\ instances' = Append(instances, Instance("Block", Len(heap) + 1, <<>>))
    /\ UNCHANGED <<pc, codecVars, stringVars, schemaVars>>

\* FormatSpec(name): blocks is the default list
NewFormatSpecDefault ==
    /\ Len(instances) < MaxInstances
    /\ instances' = Append(instances, Instance("FormatSpec", FormatSpecDefault, <<>>))
    /\ UNCHANGED <<pc, heap, codecVars, stringVars, schemaVars>>

\* FormatSpec(name, []): blocks is a new list of the caller
NewFormatSpecWithList ==
    /\ Len(instances) < MaxInstances
    /\ heap' = Append(heap, <<>>)
    /\ instances' = Append(instances, Instance("FormatSpec", Len(heap) + 1, <<>>))
    /\ UNCHANGED <<pc, codecVars, stringVars, schemaVars>>

\* The append of item to the list of object i
ListAppend(i, item) ==
    /\ Len(heap[instances[i].list]) < MaxListLen
    /\ heap' = [heap EXCEPT ![instances[i].list] = Append(@, item)]
    /\ instances' = [instances EXCEPT ![i].made = Append(@, item)]
    /\ UNCHANGED <<pc, codecVars, stringVars, schemaVars>>

\* spec.add_block(block): self.blocks.append(block)
add_block ==
    \E i \in 1..Len(instances) : \E item \in Items :
        instances[i].class = "FormatSpec" /\ ListAppend(i, item)

\* block.attributes.append(attribute)
AppendAttribute ==
    \E i \in 1..Len(instances) : \E item \in Items :
        instances[i].class = "Block" /\ ListAppend(i, item)

NextHeap ==
    \/ NewBlockDefault
    \/ NewBlockWithList
    \/ NewFormatSpecDefault
    \/ NewFormatSpecWithList
    \/ add_block
    \/ AppendAttribute

SpecHeap == InitHeap /\ [][NextHeap]_vars

--------------------------------------------------------------------------
(* Properties of the codec (Spec) *)

\* The mesh the encoder holds once the .obj file is read
Mesh == ParseObj(objfile)

\* Whether the decoder reached place a of block b having read `end` bytes
DecoderAt(b, a, end) ==
    \E j \in 1..Len(dec.log) : dec.log[j].b = b /\ dec.log[j].a = a /\ dec.log[j].end = end

\* Whether the two walks are aligned after every attribute and terminator and
\* the stream is consumed exactly
Aligned ==
    /\ dec.ok
    /\ dec.pos = Len(binfile)
    /\ \A i \in 1..Len(enc.log) : DecoderAt(enc.log[i].b, enc.log[i].a, enc.log[i].end)

\* C1: for every FormatSpec and every mesh, when binary_to_txt decodes the
\* bytes create_binary_from_obj wrote with the same FormatSpec, after each
\* attribute and each block terminator the decoder has read as many bytes as
\* the encoder had written at that point, and the stream is consumed exactly:
\* no exception for a read past its end, no bytes left over.
C1_WalksAligned == pc = "decoded" => Aligned

\* The length a <stem>_count attribute is to report
TrueLength(stem) ==
    CASE stem = "vertex" -> Len(Mesh.vertex_positions)
      [] stem = "normal" -> Len(Mesh.vertex_normals)
      [] stem = "texcoord" -> Len(Mesh.texture_coords)
      [] stem = "face" -> Len(Mesh.faces)

CountStems == {"vertex", "normal", "texcoord", "face"}

\* The entries the decoder wrote for vertex_count, normal_count,
\* texcoord_count and face_count attributes
CountEntries ==
    {j \in 1..Len(dec.dump) :
        dec.dump[j].kind = "count" /\ dec.dump[j].name[1] \in CountStems}

\* C2: for any mesh and any spec, every count field (vertex_count,
\* normal_count, texcoord_count, face_count) that decoding the encoder's
\* output reports equals the true length of the positions, normals, texcoords
\* and faces, wherever the count attribute stands in the schema.  Stated for
\* the runs in which the two walks stay aligned, so that a count is never
\* read from bytes that belong to something else.
C2_CountsAreTrue ==
    (pc = "decoded" /\ Aligned) =>
        \A j \in CountEntries :
            dec.dump[j].value = <<<<IntV(TrueLength(dec.dump[j].name[1]))>>>>

\* The values written under each face name, whatever the entry they were written in
FaceTuples(d) ==
    [name \in FaceNames |->
        UNION {{d.dump[j].value[i] : i \in 1..Len(d.dump[j].value)} :
                 j \in {i \in 1..Len(d.dump) : d.dump[i].name = name}}]

\* The spec with the same blocks and byte order and the given face layout
WithLayout(spec, face_format) ==
    FormatSpecInit(spec.name, spec.blocks, spec.endian, face_format)

\* Encoding the mesh and decoding the bytes under a spec
RoundTrip(spec) == binary_to_txt(spec, create_binary_from_obj(spec, Mesh).out)

\* C3: for the same mesh and the same attribute set a FormatSpec with face
\* layout "sequential" and one with face layout "separate" can both be built,
\* and encoding then decoding under each yields the same face, face_normal
\* and face_texcoord values.  The second spec is built with the spelling of
\* the layout the claim gives, and the values are compared with the layout
\* that is not the sequential one, which the code spells "seperate".
C3_LayoutsAgree ==
    (pc = "decoded" /\ formatspec.face_format = "sequential") =>
        /\ ~WithLayout(formatspec, "separate").raised
        /\ FaceTuples(dec) = FaceTuples(RoundTrip(WithLayout(formatspec, "seperate").self))

\* The second half of C3 on its own
C3_ValuesAgree ==
    (pc = "decoded" /\ formatspec.face_format = "sequential") =>
        FaceTuples(dec) = FaceTuples(RoundTrip(WithLayout(formatspec, "seperate").self))

\* The spec of tests/test_data.py test1
Test1Spec == FormatSpecInit("example", Test1Blocks, "big", "sequential").self

\* Big-endian bytes of a 32-bit unsigned integer below 2^24
U32BE(n) == <<0, n \div 65536, (n \div 256) % 256, n % 256>>

\* The bytes test1 is to yield for the .obj file: the number of v lines, the
\* coordinates of each as big-endian binary32, the number of f lines, the
\* vertex indices of each
ExpectedTest1 ==
    U32BE(Len(objfile.v))
        \o Flatten([k \in 1..Len(objfile.v) |->
                        struct_pack([prefix |-> ">", codes |-> <<"f", "f", "f">>],
                                    objfile.v[k]).bytes])
        \o U32BE(Len(objfile.f))
        \o Flatten([j \in 1..Len(objfile.f) |->
                        Flatten([c \in 1..3 |-> U32BE(objfile.f[j].corners[c].v)])])

\* A coordinate as binary32 holds it
AsFloat32(x) == IF x = Tenth64 THEN Tenth32 ELSE x

\* What decoding is to report for test1
ExpectedTest1Dump ==
    <<[b |-> 1, a |-> 1, name |-> <<"vertex", "count">>, kind |-> "count",
       value |-> <<<<IntV(Len(objfile.v))>>>>],
      [b |-> 1, a |-> 2, name |-> <<"position">>, kind |-> "array",
       value |-> [k \in 1..Len(objfile.v) |-> [c \in 1..3 |-> AsFloat32(objfile.v[k][c])]]],
      [b |-> 2, a |-> 1, name |-> <<"face", "count">>, kind |-> "count",
       value |-> <<<<IntV(Len(objfile.f))>>>>],
      [b |-> 2, a |-> 2, name |-> <<"face">>, kind |-> "array",
       value |-> [j \in 1..Len(objfile.f) |-> [c \in 1..3 |-> IntV(objfile.f[j].corners[c].v)]]]>>

\* The binary file of the literal case: 3 positions (0,0,0), (1,0,0), (0,1,0)
\* and the face (1,2,3)
LiteralTest1 ==
    <<0, 0, 0, 3,
      0, 0, 0, 0,  0, 0, 0, 0,  0, 0, 0, 0,
      63, 128, 0, 0,  0, 0, 0, 0,  0, 0, 0, 0,
      0, 0, 0, 0,  63, 128, 0, 0,  0, 0, 0, 0,
      0, 0, 0, 1,
      0, 0, 0, 1,  0, 0, 0, 2,  0, 0, 0, 3>>

\* C4: for the big-endian, sequential spec with blocks [vertex_count: uint32,
\* position: float x3] and [face_count: uint32, face: uint32 x3] and a mesh
\* with n positions and m triangles, the encoder writes exactly n as 4
\* big-endian bytes, the n position triples, m as 4 big-endian bytes and the m
\* index triples; decoding reports vertex_count = n, the n position tuples,
\* face_count = m and the m face tuples.  With 3 positions and the face
\* (1,2,3) the file is 00000003, three 12-byte triples, 00000001,
\* 000000010000000200000003.
C4_Test1Bytes ==
    (pc \in {"encoded", "encode_failed", "decoded"} /\ formatspec = Test1Spec) =>
        /\ pc # "encode_failed"
        /\ binfile = ExpectedTest1
        /\ objfile = ObjFile(3, 0, 1) => binfile = LiteralTest1
        /\ pc = "decoded" => (dec.ok /\ dec.dump = ExpectedTest1Dump /\ dec.pos = Len(binfile))

\* A run of test1 on the literal case, decoded
C4_Witness ==
    /\ pc = "decoded"
    /\ formatspec = Test1Spec
    /\ objfile = ObjFile(3, 0, 1)
    /\ binfile = LiteralTest1
    /\ Len(dec.dump) = 4

\* The block of a schema with a single attribute
OnlyAttribute(spec) == spec.blocks[1].attributes[1]

\* Whether the schema is one block whose only attribute has a name no branch
\* recognizes and a type that is not string
ZeroFilled(spec) ==
    /\ Len(spec.blocks) = 1
    /\ Len(spec.blocks[1].attributes) = 1
    /\ spec.blocks[1].block_terminator = <<>>
    /\ OnlyAttribute(spec).name \in UnknownNames
    /\ OnlyAttribute(spec).type # "string"
    /\ OnlyAttribute(spec).size >= 1

IsZero(x) == x.k \in {"int", "float", "bool", "bytes"} /\ x.v = 0

\* C5: for an attribute whose name matches none of the recognized patterns
\* and whose type is not string, the encoder completes without error and
\* emits exactly one zero value of the attribute's type and cardinality (as
\* many zero bytes as the type is wide, times the cardinality), and the
\* decoder reads it back as a zero scalar or an all-zero tuple, for every
\* registered type and every cardinality >= 1.
C5_ZeroFill ==
    (pc # "start" /\ ZeroFilled(formatspec)) =>
        /\ pc # "encode_failed"
        /\ binfile = [j \in 1..calcsize(AttFormat(formatspec, OnlyAttribute(formatspec))) |-> 0]
        /\ pc = "decoded" =>
            /\ dec.ok
            /\ Len(dec.dump) = 1
            /\ dec.dump[1].kind = "scalar"
            /\ Len(dec.dump[1].value[1]) = OnlyAttribute(formatspec).size
            /\ \A c \in 1..Len(dec.dump[1].value[1]) : IsZero(dec.dump[1].value[1][c])

\* Whether the spec has an attribute called `name`
HasAttribute(spec, name) ==
    \E b \in 1..Len(spec.blocks) : \E a \in 1..Len(spec.blocks[b].attributes) :
        spec.blocks[b].attributes[a].name = name

RenamedAttribute(att, old, new) == IF att.name = old THEN [att EXCEPT !.name = new] ELSE att

RenamedBlock(block, old, new) ==
    [block EXCEPT !.attributes = [a \in 1..Len(@) |-> RenamedAttribute(@[a], old, new)]]

\* The spec that differs only in calling `new` the attribute called `old`
Renamed(spec, old, new) ==
    [spec EXCEPT !.blocks = [b \in 1..Len(@) |-> RenamedBlock(@[b], old, new)]]

\* A decoder run with what was written under `old` filed under `new`
RenamedRun(d, old, new) ==
    [d EXCEPT !.dump = [j \in 1..Len(@) |->
                            [@[j] EXCEPT !.name = IF @ = old THEN new ELSE @]]]

\* C6: two specs that differ only in naming one attribute position in the
\* first and vertex in the second produce, for any mesh, byte-identical
\* encoder output (the same bytes, ending at the same offset after every
\* attribute), and the decoder looks both names up under the same vertex
\* count entry, so that it reads the same bytes and values under either.
C6_Synonym ==
    (pc \in {"encoded", "encode_failed", "decoded"} /\ HasAttribute(formatspec, <<"position">>)
        /\ ~HasAttribute(formatspec, <<"vertex">>)) =>
        /\ create_binary_from_obj(Renamed(formatspec, <<"position">>, <<"vertex">>), Mesh) = enc
        /\ DecodeKey(PositionAtt) = <<"vertex">> /\ DecodeKey(VertexAtt) = <<"vertex">>
        /\ pc = "decoded" =>
            RenamedRun(binary_to_txt(Renamed(formatspec, <<"position">>, <<"vertex">>), binfile),
                       <<"vertex">>, <<"position">>) = dec

\* A decoded run in which an attribute called position held several positions
C6_Witness ==
    /\ pc = "decoded"
    /\ HasAttribute(formatspec, <<"position">>)
    /\ dec.ok
    /\ \E j \in 1..Len(dec.dump) :
            dec.dump[j].name = <<"position">> /\ dec.dump[j].kind = "array"
                /\ Len(dec.dump[j].value) >= 2

\* Whether the block has a terminator
Terminated(b) == formatspec.blocks[b].block_terminator # <<>>

\* The place of the terminator of block b in the walk
TerminatorPlace(b) == Len(formatspec.blocks[b].attributes) + 1

\* C10: for every block that declares a terminator, the terminator is written
\* once and read once after all the block's attributes: the encoder emits it
\* after the block's last attribute, and the decoder reads it at the same
\* place before it starts the next block, so that at the end of the block the
\* decoder has read as many bytes as the encoder had written after the
\* terminator.
C10_TerminatorReadOnce ==
    pc = "decoded" =>
        \A b \in {k \in 1..Len(formatspec.blocks) : Terminated(k)} :
            \E i \in 1..Len(enc.log) :
                /\ enc.log[i].b = b
                /\ enc.log[i].a = TerminatorPlace(b)
                /\ DecoderAt(b, TerminatorPlace(b), enc.log[i].end)

\* The names the decoder is to treat as arrays governed by a count
DynamicNames == ArrayNames \cup FaceNames

\* The names whose count a <stem>_count attribute records
Governed(stem) ==
    CASE stem \in {"vertex", "position"} -> {<<"vertex">>, <<"position">>}
      [] stem = "face" -> FaceNames
      [] OTHER -> {<<stem>>}

\* Whether place a of block b is a dynamic attribute that no count attribute
\* standing before it in the block governs
Unresolved(b, a) ==
    /\ formatspec.blocks[b].attributes[a].name \in DynamicNames
    /\ ~\E c \in 1..(a - 1) :
            /\ IsCountName(formatspec.blocks[b].attributes[c].name)
            /\ formatspec.blocks[b].attributes[a].name
                    \in Governed(formatspec.blocks[b].attributes[c].name[1])

UnresolvedPlaces ==
    {p \in UNION {{<<b, a>> : a \in 1..Len(formatspec.blocks[b].attributes)} :
                    b \in 1..Len(formatspec.blocks)} : Unresolved(p[1], p[2])}

\* Whether the decoder went past place a of block b
DecoderPassed(b, a) ==
    \E j \in 1..Len(dec.log) : dec.log[j].b = b /\ dec.log[j].a = a

\* C11: when the decoder meets a dynamic attribute (position, vertex, normal,
\* texcoord, face, face_normal, face_texcoord) that no preceding count
\* attribute of the same block governs, decoding ends in a fatal error there:
\* the decoder does not go past the attribute, neither by reading a single
\* tuple in its place nor by skipping it.
C11_UnresolvedIsFatal ==
    pc = "decoded" =>
        \A p \in UnresolvedPlaces : ~DecoderPassed(p[1], p[2]) /\ ~dec.ok

\* Whether an attribute named face, face_normal or face_texcoord stands at
\* place a of block b or before it
FaceSeenBy(b, a) ==
    \E c \in 1..Min(a, Len(formatspec.blocks[b].attributes)) :
        formatspec.blocks[b].attributes[c].name \in FaceNames

\* The first place of block b that holds a face, face_normal or face_texcoord attribute
FirstFacePlace(b) ==
    Least({a \in 1..Len(formatspec.blocks[b].attributes) :
                formatspec.blocks[b].attributes[a].name \in FaceNames})

\* The blocks in which a face_count stands before the first face-related attribute
FaceCountedBlocks ==
    {b \in 1..Len(formatspec.blocks) :
        /\ FaceSeenBy(b, Len(formatspec.blocks[b].attributes))
        /\ \E c \in 1..(FirstFacePlace(b) - 1) :
                formatspec.blocks[b].attributes[c].name = <<"face", "count">>}

\* Whether the decoder wrote, at place a of block b, an array of n entries
\* read for the attribute that stands there
ArrayRead(b, a, n) ==
    \E j \in 1..Len(dec.dump) :
        /\ dec.dump[j].b = b /\ dec.dump[j].a = a /\ dec.dump[j].kind = "array"
        /\ dec.dump[j].name = formatspec.blocks[b].attributes[a].name
        /\ Len(dec.dump[j].value) = n

\* C12: in the decoder under the sequential layout the per-block flag
\* done_sequentail is set only once an attribute named face, face_normal or
\* face_texcoord of the block has been processed; so in a run that ends
\* without an exception the first face-related attribute of a block that
\* follows a face_count is read from the stream as an array, whatever other
\* counted attributes precede it in the block.
C12_FlagSetByFaceOnly ==
    (pc = "decoded" /\ formatspec.face_format = "sequential") =>
        /\ \A j \in 1..Len(dec.log) :
                dec.log[j].done => FaceSeenBy(dec.log[j].b, dec.log[j].a)
        /\ dec.ok =>
                \A b \in FaceCountedBlocks :
                    \E n \in 0..Len(binfile) : ArrayRead(b, FirstFacePlace(b), n)

\* The entries of the encoder's log for a face-related attribute that
\* stands after the first face-related attribute of its block
LaterFaceEntries ==
    {i \in 1..Len(enc.log) :
        /\ enc.log[i].a <= Len(formatspec.blocks[enc.log[i].b].attributes)
        /\ formatspec.blocks[enc.log[i].b].attributes[enc.log[i].a].name \in FaceNames
        /\ enc.log[i].a > FirstFacePlace(enc.log[i].b)}

\* Whether the encoder has processed a face-related attribute
FaceProcessed ==
    \E i \in 1..Len(enc.log) :
        /\ enc.log[i].a <= Len(formatspec.blocks[enc.log[i].b].attributes)
        /\ formatspec.blocks[enc.log[i].b].attributes[enc.log[i].a].name \in FaceNames

\* C13: in the encoder under the sequential layout, once the first attribute
\* named face, face_normal or face_texcoord of a block has been processed all
\* three lists faces, face_normals and face_texcoords are drained, and every
\* later attribute of the block with one of these names emits no bytes: the
\* offset after it is the offset before it.
C13_DrainedAfterFirstFace ==
    (pc \in {"encoded", "encode_failed", "decoded"} /\ formatspec.face_format = "sequential") =>
        /\ FaceProcessed =>
                (enc.faces = <<>> /\ enc.face_normals = <<>> /\ enc.face_texcoords = <<>>)
        /\ \A i \in LaterFaceEntries : enc.log[i].end = enc.log[i - 1].end

\* The second half of C13 on its own: later face-related attributes emit nothing
C13_LaterFaceSilent ==
    (pc \in {"encoded", "encode_failed", "decoded"} /\ formatspec.face_format = "sequential") =>
        \A i \in LaterFaceEntries : enc.log[i].end = enc.log[i - 1].end

\* The attribute an entry of the encoder's log is about (not a terminator)
LoggedAttribute(i) == formatspec.blocks[enc.log[i].b].attributes[enc.log[i].a]

\* The offset the encoder stood at before the entry i of its log
OffsetBefore(i) == IF i = 1 THEN 0 ELSE enc.log[i - 1].end

\* The entries of the encoder's log for attributes called <stem>_count
CountLogEntries ==
    {i \in 1..Len(enc.log) :
        /\ enc.log[i].a <= Len(formatspec.blocks[enc.log[i].b].attributes)
        /\ IsCountName(LoggedAttribute(i).name)}

\* The length a count of the given stem carries; position is the alias of vertex
LengthOf(stem) ==
    CASE stem \in {"vertex", "position"} -> Len(objfile.v)
      [] stem = "normal" -> Len(objfile.vn)
      [] stem = "texcoord" -> Len(objfile.vt)

\* Whether the decoder read a count at place a of block b
CountReadAt(b, a) ==
    \E j \in 1..Len(dec.dump) :
        dec.dump[j].b = b /\ dec.dump[j].a = a /\ dec.dump[j].kind = "count"

\* C14: encoder and decoder resolve count attributes the same way: for every
\* attribute called <stem>_count the encoder emits exactly one scalar of the
\* declared type and the decoder reads exactly one; the stems vertex, normal
\* and texcoord carry the length of positions, normals and texcoords, and
\* position_count is on both sides the alias of vertex_count: the encoder
\* emits the length of positions and the decoder records it under vertex.
C14_CountsResolvedAlike ==
    pc \in {"encoded", "decoded"} =>
        \A i \in CountLogEntries :
            /\ enc.log[i].end - OffsetBefore(i) = calcsize(AttFormat(formatspec, LoggedAttribute(i)))
            /\ LoggedAttribute(i).name[1] \in {"vertex", "position", "normal", "texcoord"} =>
                    SubSeq(binfile, OffsetBefore(i) + 1, enc.log[i].end)
                        = struct_pack(AttFormat(formatspec, LoggedAttribute(i)),
                                      <<IntV(LengthOf(LoggedAttribute(i).name[1]))>>).bytes
            /\ (pc = "decoded" /\ DecoderPassed(enc.log[i].b, enc.log[i].a)) =>
                    CountReadAt(enc.log[i].b, enc.log[i].a)

\* Whether the schema is one block whose only attribute is of string type
\* and has a name that is no recognized role or count
StringOnly(spec) ==
    /\ Len(spec.blocks) = 1
    /\ Len(spec.blocks[1].attributes) = 1
    /\ spec.blocks[1].block_terminator = <<>>
    /\ OnlyAttribute(spec).name \in UnknownNames
    /\ OnlyAttribute(spec).type = "string"
    /\ OnlyAttribute(spec).size = 1

\* Whether bytes are a length prefix of w bytes holding n < 256 followed by the text
PackedForm(bytes, w, n, text) ==
    /\ Len(bytes) = w + Len(text)
    /\ SubSeq(bytes, w + 1, Len(bytes)) = text
    /\ \E k \in 1..w : bytes[k] = n /\ \A j \in (1..w) \ {k} : bytes[j] = 0
    /\ n = Len(text)

PrefixWidths == {1, 2, 4, 8}

\* C15: for an attribute of string type whose name is no recognized role or
\* count, the encoder completes without error and emits the packed form of
\* the string it is given (the placeholder "test"): a fixed-width unsigned
\* length prefix followed by that many UTF-8 bytes; the decoder reads the
\* attribute through the string codec, consuming just these bytes, and
\* echoes the text the encoder packed.
C15_StringAttribute ==
    (pc # "start" /\ StringOnly(formatspec)) =>
        /\ pc # "encode_failed"
        /\ \E w \in PrefixWidths : PackedForm(binfile, w, Len(Placeholder), Placeholder)
        /\ pc = "decoded" =>
            /\ dec.ok
            /\ dec.pos = Len(binfile)
            /\ Len(dec.dump) = 1
            /\ dec.dump[1].kind = "string"
            /\ dec.dump[1].value = <<<<[k |-> "str", v |-> Placeholder]>>>>

--------------------------------------------------------------------------
(* Properties of the string codec (SpecString) *)

\* The greatest length a prefix of the given format character can hold; the
\* strings considered are shorter than any prefix of 4 bytes or more can hold
PrefixMax(c) == CASE c = "B" -> 255 [] c = "H" -> 65535 [] OTHER -> 2147483647

\* Whether the encoding has a form for every character of the string
Encodable(data, encoding) ==
    \A j \in 1..Len(data) :
        IF encoding = "latin-1" THEN data[j] <= 255 ELSE ~IsSurrogate(data[j])

EncodedLength == Len(str_encode(strcall.data, strcall.encoding).bytes)

\* Whether the string can be packed: it can be encoded and the prefix can
\* hold the length of its encoded form
Packable ==
    /\ Encodable(strcall.data, strcall.encoding)
    /\ EncodedLength <= PrefixMax(strcall.length_format.codes[1])

\* unpack_string returned the string that was packed and left the stream
\* just after the prefix and the encoded bytes
ReadBack ==
    /\ strout.ok
    /\ strout.text = strcall.data
    /\ strout.pos = calcsize(strcall.length_format) + EncodedLength
    /\ strout.pos = Len(strfile) - Len(strcall.tail)

\* C7 as stated: unpack_string(pack_string(s)) == s for any string s and any
\* supported length-prefix width, with the same length format and encoding
\* on both sides, and unpack consumes exactly the prefix plus the encoded
\* bytes: pack_string returns for every string and unpack_string reads it back.
C7_AnyString ==
    /\ pc # "pack_failed"
    /\ pc = "unpacked" => ReadBack

\* C7, amended: pack_string returns exactly for the strings the encoding can
\* encode and whose encoded byte length the prefix can hold (it raises for
\* the others), and for those unpack_string with the same length format and
\* encoding returns the string and consumes exactly the prefix plus the
\* encoded bytes.
C7_PackableString ==
    /\ pc \in {"packed", "unpacked"} => Packable
    /\ pc = "pack_failed" => ~Packable
    /\ pc = "unpacked" => ReadBack

\* A string with characters of several bytes read back from a stream that
\* goes on after it
C7_Witness ==
    /\ pc = "unpacked"
    /\ strcall.tail # <<>>
    /\ Len(strcall.data) >= 2
    /\ EncodedLength > Len(strcall.data)
    /\ strout.text = strcall.data

--------------------------------------------------------------------------
(* Properties of the schema classes (SpecSchema) *)

\* C8: FormatSpec construction succeeds exactly when the byte order is one of
\* little, big and the face layout is one of sequential, separate; with any
\* other value of either construction fails, and no FormatSpec that carries a
\* byte order or face layout other than the one asked for is returned.
C8_FormatSpecValidated ==
    pc \in {"formatspec", "formatspec_raised"} =>
        /\ pc = "formatspec" <=>
                (ctorcall.endian \in {"little", "big"}
                    /\ ctorcall.face_format \in {"sequential", "separate"})
        /\ pc = "formatspec" =>
                (ctorout.self.endian = ctorcall.endian
                    /\ ctorout.self.face_format = ctorcall.face_format)

\* C9: every Attribute that construction returns has a registered type and a
\* cardinality >= 1: construction fails for an unregistered type and for a
\* cardinality < 1.
C9_AttributeValidated ==
    pc # "start" =>
        /\ pc = "attribute_raised" <=>
                (ctorcall.data_type \notin RegisteredTypes \/ ctorcall.size < 1)
        /\ pc = "attribute" => (is_valid_type(ctorout.self.type) /\ ctorout.self.size >= 1)

--------------------------------------------------------------------------
(* Properties of the lists of the schema objects (SpecHeap) *)

\* The sequence object i holds: the contents of the list it refers to
Sequence(i) == heap[instances[i].list]

\* C16: schema objects own their sequences: after any series of
\* constructions of Block and FormatSpec, with or without a list argument,
\* and of add_block calls and appends to a block's attributes, the sequence
\* of every object is what was appended through this object, so that a
\* change made through one object leaves the sequence of every other
\* unchanged and a newly built object starts with an empty sequence.
C16_OwnSequences ==
    \A i \in 1..Len(instances) : Sequence(i) = instances[i].made

====
